---- MODULE Spec2Model ----
(***************************************************************************)
(* Model of parse-locale-identifiers.c: conversion of locale identifiers   *)
(* between the Gettext form language[_territory][.codeset][@modifier] and  *)
(* the Unicode language identifier form, with the modifier/script          *)
(* crosswalk table.                                                        *)
(*                                                                         *)
(* A C string is a sequence of one-character strings; the terminating NUL  *)
(* is the character read at index Len(s).  Indices are 0-based as in C.    *)
(***************************************************************************)
EXTENDS Integers, Sequences, FiniteSets, TLC

\* The null pointer (char*), distinct from every C string, the empty one included.
NULL == <<"NULL">>

\* The terminating '\0' of a C string.
NUL == "NUL"

\* s[i] in C: the i-th character (0-based), the terminator at i = strlen(s).
At(s, i) == IF i = Len(s) THEN NUL ELSE s[i + 1]

UpperCase ==
  <<"A", "B", "C", "D", "E", "F", "G", "H", "I", "J", "K", "L", "M",
    "N", "O", "P", "Q", "R", "S", "T", "U", "V", "W", "X", "Y", "Z">>

LowerCase ==
  <<"a", "b", "c", "d", "e", "f", "g", "h", "i", "j", "k", "l", "m",
    "n", "o", "p", "q", "r", "s", "t", "u", "v", "w", "x", "y", "z">>

Digit == {"0", "1", "2", "3", "4", "5", "6", "7", "8", "9"}

Alpha == {UpperCase[i] : i \in 1..26} \cup {LowerCase[i] : i \in 1..26}

\* <ctype.h>, "C" locale
isdigit(c) == c \in Digit

isalpha(c) == c \in Alpha

isalnum(c) == isalpha(c) \/ isdigit(c)

\* The lower-case letter of each upper-case one.
LowerOf ==
  [c \in {UpperCase[i] : i \in 1..26} |->
     LowerCase[CHOOSE i \in 1..26 : UpperCase[i] = c]]

tolower(c) == IF c \in DOMAIN LowerOf THEN LowerOf[c] ELSE c

\* strcasecmp(a, b) == 0
strcasecmpEq(a, b) ==
  /\ Len(a) = Len(b)
  /\ \A i \in 1..Len(a) : tolower(a[i]) = tolower(b[i])

\* strncmp(a, b, n) == 0, for a of length >= n and b read from offset `from`
strncmpEq(a, s, from, n) ==
  \A i \in 0..(n - 1) : At(s, from + i) = a[i + 1]

\* The n characters of s from offset `from` (what strndup(s + from, n) copies).
Sub(s, from, n) == [i \in 1..n |-> s[from + i]]

\* Map from Gettext modifier identifiers to Unicode script identifiers,
\* the {NULL, NULL} sentinel row included.
GettextModifierToUnicodeScriptDictionary ==
 <<
  <<<<"a", "h", "o", "m">>, <<"A", "h", "o", "m">>>>,
  <<<<"a", "n", "a", "t", "o", "l", "i", "a", "n", "_", "h", "i", "e", "r", "o", "g", "l", "y", "p", "h", "s">>, <<"H", "l", "u", "w">>>>,
  <<<<"a", "r", "a", "b", "i", "c">>, <<"A", "r", "a", "b">>>>,
  <<<<"a", "r", "m", "e", "n", "i", "a", "n">>, <<"A", "r", "m", "n">>>>,
  <<<<"a", "v", "e", "s", "t", "a", "n">>, <<"A", "v", "s", "t">>>>,
  <<<<"b", "a", "l", "i", "n", "e", "s", "e">>, <<"B", "a", "l", "i">>>>,
  <<<<"b", "a", "m", "u", "m">>, <<"B", "a", "m", "u">>>>,
  <<<<"b", "a", "s", "s", "a", "_", "v", "a", "h">>, <<"B", "a", "s", "s">>>>,
  <<<<"b", "a", "t", "a", "k">>, <<"B", "a", "t", "k">>>>,
  <<<<"b", "e", "n", "g", "a", "l", "i">>, <<"B", "e", "n", "g">>>>,
  <<<<"b", "o", "p", "o", "m", "o", "f", "o">>, <<"B", "o", "p", "o">>>>,
  <<<<"b", "r", "a", "h", "m", "i">>, <<"B", "r", "a", "h">>>>,
  <<<<"b", "r", "a", "i", "l", "l", "e">>, <<"B", "r", "a", "i">>>>,
  <<<<"b", "u", "g", "i", "n", "e", "s", "e">>, <<"B", "u", "g", "i">>>>,
  <<<<"b", "u", "h", "i", "d">>, <<"B", "u", "h", "d">>>>,
  <<<<"c", "a", "n", "a", "d", "i", "a", "n", "_", "a", "b", "o", "r", "i", "g", "i", "n", "a", "l">>, <<"C", "a", "n", "s">>>>,
  <<<<"c", "a", "r", "i", "a", "n">>, <<"C", "a", "r", "i">>>>,
  <<<<"c", "a", "u", "c", "a", "s", "i", "a", "n", "_", "a", "l", "b", "a", "n", "i", "a", "n">>, <<"A", "g", "h", "b">>>>,
  <<<<"c", "h", "a", "k", "m", "a">>, <<"C", "a", "k", "m">>>>,
  <<<<"c", "h", "a", "m">>, <<"C", "h", "a", "m">>>>,
  <<<<"c", "h", "e", "r", "o", "k", "e", "e">>, <<"C", "h", "e", "r">>>>,
  <<<<"c", "o", "m", "m", "o", "n">>, <<"Z", "y", "y", "y">>>>,
  <<<<"c", "o", "p", "t", "i", "c">>, <<"C", "o", "p", "t">>>>,
  <<<<"c", "u", "n", "e", "i", "f", "o", "r", "m">>, <<"X", "s", "u", "x">>>>,
  <<<<"c", "y", "p", "r", "i", "o", "t">>, <<"C", "p", "r", "t">>>>,
  <<<<"c", "y", "r", "i", "l", "l", "i", "c">>, <<"C", "y", "r", "l">>>>,
  <<<<"d", "e", "s", "e", "r", "e", "t">>, <<"D", "s", "r", "t">>>>,
  <<<<"d", "e", "v", "a", "n", "a", "g", "a", "r", "i">>, <<"D", "e", "v", "a">>>>,
  <<<<"d", "u", "p", "l", "o", "y", "a", "n">>, <<"D", "u", "p", "l">>>>,
  <<<<"e", "g", "y", "p", "t", "i", "a", "n", "_", "h", "i", "e", "r", "o", "g", "l", "y", "p", "h", "s">>, <<"E", "g", "y", "p">>>>,
  <<<<"e", "l", "b", "a", "s", "a", "n">>, <<"E", "l", "b", "a">>>>,
  <<<<"e", "t", "h", "i", "o", "p", "i", "c">>, <<"E", "t", "h", "i">>>>,
  <<<<"g", "e", "o", "r", "g", "i", "a", "n">>, <<"G", "e", "o", "k">>>>,
  <<<<"g", "e", "o", "r", "g", "i", "a", "n">>, <<"G", "e", "o", "r">>>>,
  <<<<"g", "l", "a", "g", "o", "l", "i", "t", "i", "c">>, <<"G", "l", "a", "g">>>>,
  <<<<"g", "o", "t", "h", "i", "c">>, <<"G", "o", "t", "h">>>>,
  <<<<"g", "r", "a", "n", "t", "h", "a">>, <<"G", "r", "a", "n">>>>,
  <<<<"g", "r", "e", "e", "k">>, <<"G", "r", "e", "k">>>>,
  <<<<"g", "u", "j", "a", "r", "a", "t", "i">>, <<"G", "u", "j", "r">>>>,
  <<<<"g", "u", "r", "m", "u", "k", "h", "i">>, <<"G", "u", "r", "u">>>>,
  <<<<"h", "a", "n">>, <<"H", "a", "n", "i">>>>,
  <<<<"h", "a", "n", "g", "u", "l">>, <<"H", "a", "n", "g">>>>,
  <<<<"h", "a", "n", "u", "n", "o", "o">>, <<"H", "a", "n", "o">>>>,
  <<<<"h", "a", "t", "r", "a", "n">>, <<"H", "a", "t", "r">>>>,
  <<<<"h", "e", "b", "r", "e", "w">>, <<"H", "e", "b", "r">>>>,
  <<<<"h", "i", "r", "a", "g", "a", "n", "a">>, <<"H", "i", "r", "a">>>>,
  <<<<"i", "m", "p", "e", "r", "i", "a", "l", "_", "a", "r", "a", "m", "a", "i", "c">>, <<"A", "r", "m", "i">>>>,
  <<<<"i", "n", "h", "e", "r", "i", "t", "e", "d">>, <<"Z", "i", "n", "h">>>>,
  <<<<"i", "n", "s", "c", "r", "i", "p", "t", "i", "o", "n", "a", "l", "_", "p", "a", "h", "l", "a", "v", "i">>, <<"P", "h", "l", "i">>>>,
  <<<<"i", "n", "s", "c", "r", "i", "p", "t", "i", "o", "n", "a", "l", "_", "p", "a", "r", "t", "h", "i", "a", "n">>, <<"P", "r", "t", "i">>>>,
  <<<<"j", "a", "v", "a", "n", "e", "s", "e">>, <<"J", "a", "v", "a">>>>,
  <<<<"k", "a", "i", "t", "h", "i">>, <<"K", "t", "h", "i">>>>,
  <<<<"k", "a", "n", "n", "a", "d", "a">>, <<"K", "n", "d", "a">>>>,
  <<<<"k", "a", "t", "a", "k", "a", "n", "a">>, <<"K", "a", "n", "a">>>>,
  <<<<"k", "a", "t", "a", "k", "a", "n", "a", "_", "o", "r", "_", "h", "i", "r", "a", "g", "a", "n", "a">>, <<"H", "r", "k", "t">>>>,
  <<<<"k", "a", "y", "a", "h", "_", "l", "i">>, <<"K", "a", "l", "i">>>>,
  <<<<"k", "h", "a", "r", "o", "s", "h", "t", "h", "i">>, <<"K", "h", "a", "r">>>>,
  <<<<"k", "h", "m", "e", "r">>, <<"K", "h", "m", "r">>>>,
  <<<<"k", "h", "o", "j", "k", "i">>, <<"K", "h", "o", "j">>>>,
  <<<<"k", "h", "u", "d", "a", "w", "a", "d", "i">>, <<"S", "i", "n", "d">>>>,
  <<<<"l", "a", "o">>, <<"L", "a", "o", "o">>>>,
  <<<<"l", "a", "t", "i", "n">>, <<"L", "a", "t", "n">>>>,
  <<<<"l", "e", "p", "c", "h", "a">>, <<"L", "e", "p", "c">>>>,
  <<<<"l", "i", "m", "b", "u">>, <<"L", "i", "m", "b">>>>,
  <<<<"l", "i", "n", "e", "a", "r", "_", "a">>, <<"L", "i", "n", "a">>>>,
  <<<<"l", "i", "n", "e", "a", "r", "_", "b">>, <<"L", "i", "n", "b">>>>,
  <<<<"l", "i", "s", "u">>, <<"L", "i", "s", "u">>>>,
  <<<<"l", "y", "c", "i", "a", "n">>, <<"L", "y", "c", "i">>>>,
  <<<<"l", "y", "d", "i", "a", "n">>, <<"L", "y", "d", "i">>>>,
  <<<<"m", "a", "h", "a", "j", "a", "n", "i">>, <<"M", "a", "h", "j">>>>,
  <<<<"m", "a", "l", "a", "y", "a", "l", "a", "m">>, <<"M", "l", "y", "m">>>>,
  <<<<"m", "a", "n", "d", "a", "i", "c">>, <<"M", "a", "n", "d">>>>,
  <<<<"m", "a", "n", "i", "c", "h", "a", "e", "a", "n">>, <<"M", "a", "n", "i">>>>,
  <<<<"m", "e", "e", "t", "e", "i", "_", "m", "a", "y", "e", "k">>, <<"M", "t", "e", "i">>>>,
  <<<<"m", "e", "n", "d", "e", "_", "k", "i", "k", "a", "k", "u", "i">>, <<"M", "e", "n", "d">>>>,
  <<<<"m", "e", "r", "o", "i", "t", "i", "c", "_", "c", "u", "r", "s", "i", "v", "e">>, <<"M", "e", "r", "c">>>>,
  <<<<"m", "e", "r", "o", "i", "t", "i", "c", "_", "h", "i", "e", "r", "o", "g", "l", "y", "p", "h", "s">>, <<"M", "e", "r", "o">>>>,
  <<<<"m", "i", "a", "o">>, <<"P", "l", "r", "d">>>>,
  <<<<"m", "o", "d", "i">>, <<"M", "o", "d", "i">>>>,
  <<<<"m", "o", "n", "g", "o", "l", "i", "a", "n">>, <<"M", "o", "n", "g">>>>,
  <<<<"m", "r", "o">>, <<"M", "r", "o", "o">>>>,
  <<<<"m", "u", "l", "t", "a", "n", "i">>, <<"M", "u", "l", "t">>>>,
  <<<<"m", "y", "a", "n", "m", "a", "r">>, <<"M", "y", "m", "r">>>>,
  <<<<"n", "a", "b", "a", "t", "a", "e", "a", "n">>, <<"N", "b", "a", "t">>>>,
  <<<<"n", "e", "w", "_", "t", "a", "i", "_", "l", "u", "e">>, <<"T", "a", "l", "u">>>>,
  <<<<"n", "k", "o">>, <<"N", "k", "o", "o">>>>,
  <<<<"o", "g", "h", "a", "m">>, <<"O", "g", "a", "m">>>>,
  <<<<"o", "l", "_", "c", "h", "i", "k", "i">>, <<"O", "l", "c", "k">>>>,
  <<<<"o", "l", "d", "_", "h", "u", "n", "g", "a", "r", "i", "a", "n">>, <<"H", "u", "n", "g">>>>,
  <<<<"o", "l", "d", "_", "i", "t", "a", "l", "i", "c">>, <<"I", "t", "a", "l">>>>,
  <<<<"o", "l", "d", "_", "n", "o", "r", "t", "h", "_", "a", "r", "a", "b", "i", "a", "n">>, <<"N", "a", "r", "b">>>>,
  <<<<"o", "l", "d", "_", "p", "e", "r", "m", "i", "c">>, <<"P", "e", "r", "m">>>>,
  <<<<"o", "l", "d", "_", "p", "e", "r", "s", "i", "a", "n">>, <<"X", "p", "e", "o">>>>,
  <<<<"o", "l", "d", "_", "s", "o", "u", "t", "h", "_", "a", "r", "a", "b", "i", "a", "n">>, <<"S", "a", "r", "b">>>>,
  <<<<"o", "l", "d", "_", "t", "u", "r", "k", "i", "c">>, <<"O", "r", "k", "h">>>>,
  <<<<"o", "r", "i", "y", "a">>, <<"O", "r", "y", "a">>>>,
  <<<<"o", "s", "m", "a", "n", "y", "a">>, <<"O", "s", "m", "a">>>>,
  <<<<"p", "a", "h", "a", "w", "h", "_", "h", "m", "o", "n", "g">>, <<"H", "m", "n", "g">>>>,
  <<<<"p", "a", "l", "m", "y", "r", "e", "n", "e">>, <<"P", "a", "l", "m">>>>,
  <<<<"p", "a", "u", "_", "c", "i", "n", "_", "h", "a", "u">>, <<"P", "a", "u", "c">>>>,
  <<<<"p", "h", "a", "g", "s", "_", "p", "a">>, <<"P", "h", "a", "g">>>>,
  <<<<"p", "h", "o", "e", "n", "i", "c", "i", "a", "n">>, <<"P", "h", "n", "x">>>>,
  <<<<"p", "s", "a", "l", "t", "e", "r", "_", "p", "a", "h", "l", "a", "v", "i">>, <<"P", "h", "l", "p">>>>,
  <<<<"r", "e", "j", "a", "n", "g">>, <<"R", "j", "n", "g">>>>,
  <<<<"r", "u", "n", "i", "c">>, <<"R", "u", "n", "r">>>>,
  <<<<"s", "a", "m", "a", "r", "i", "t", "a", "n">>, <<"S", "a", "m", "r">>>>,
  <<<<"s", "a", "u", "r", "a", "s", "h", "t", "r", "a">>, <<"S", "a", "u", "r">>>>,
  <<<<"s", "h", "a", "r", "a", "d", "a">>, <<"S", "h", "r", "d">>>>,
  <<<<"s", "h", "a", "v", "i", "a", "n">>, <<"S", "h", "a", "w">>>>,
  <<<<"s", "i", "d", "d", "h", "a", "m">>, <<"S", "i", "d", "d">>>>,
  <<<<"s", "i", "g", "n", "w", "r", "i", "t", "i", "n", "g">>, <<"S", "g", "n", "w">>>>,
  <<<<"s", "i", "n", "h", "a", "l", "a">>, <<"S", "i", "n", "h">>>>,
  <<<<"s", "o", "r", "a", "_", "s", "o", "m", "p", "e", "n", "g">>, <<"S", "o", "r", "a">>>>,
  <<<<"s", "u", "n", "d", "a", "n", "e", "s", "e">>, <<"S", "u", "n", "d">>>>,
  <<<<"s", "y", "l", "o", "t", "i", "_", "n", "a", "g", "r", "i">>, <<"S", "y", "l", "o">>>>,
  <<<<"s", "y", "r", "i", "a", "c">>, <<"S", "y", "r", "c">>>>,
  <<<<"t", "a", "g", "a", "l", "o", "g">>, <<"T", "g", "l", "g">>>>,
  <<<<"t", "a", "g", "b", "a", "n", "w", "a">>, <<"T", "a", "g", "b">>>>,
  <<<<"t", "a", "i", "_", "l", "e">>, <<"T", "a", "l", "e">>>>,
  <<<<"t", "a", "i", "_", "t", "h", "a", "m">>, <<"L", "a", "n", "a">>>>,
  <<<<"t", "a", "i", "_", "v", "i", "e", "t">>, <<"T", "a", "v", "t">>>>,
  <<<<"t", "a", "k", "r", "i">>, <<"T", "a", "k", "r">>>>,
  <<<<"t", "a", "m", "i", "l">>, <<"T", "a", "m", "l">>>>,
  <<<<"t", "e", "l", "u", "g", "u">>, <<"T", "e", "l", "u">>>>,
  <<<<"t", "h", "a", "a", "n", "a">>, <<"T", "h", "a", "a">>>>,
  <<<<"t", "h", "a", "i">>, <<"T", "h", "a", "i">>>>,
  <<<<"t", "i", "b", "e", "t", "a", "n">>, <<"T", "i", "b", "t">>>>,
  <<<<"t", "i", "f", "i", "n", "a", "g", "h">>, <<"T", "f", "n", "g">>>>,
  <<<<"t", "i", "r", "h", "u", "t", "a">>, <<"T", "i", "r", "h">>>>,
  <<<<"u", "g", "a", "r", "i", "t", "i", "c">>, <<"U", "g", "a", "r">>>>,
  <<<<"u", "n", "k", "n", "o", "w", "n">>, <<"Z", "z", "z", "z">>>>,
  <<<<"v", "a", "i">>, <<"V", "a", "i", "i">>>>,
  <<<<"w", "a", "r", "a", "n", "g", "_", "c", "i", "t", "i">>, <<"W", "a", "r", "a">>>>,
  <<<<"y", "i">>, <<"Y", "i", "i", "i">>>>,
  <<NULL, NULL>>
 >>

\* The rows the for loops visit: those before the {NULL, NULL} sentinel.
DictionaryRows ==
  {p \in 1..Len(GettextModifierToUnicodeScriptDictionary) :
     \A q \in 1..p : GettextModifierToUnicodeScriptDictionary[q][1] # NULL}

\* A loop without the break: the last matching row wins.
DictionaryScanLast(col, key) ==
  LET hits == {p \in DictionaryRows :
                 strcasecmpEq(GettextModifierToUnicodeScriptDictionary[p][col], key)}
  IN  IF hits = {} THEN 0 ELSE CHOOSE p \in hits : \A q \in hits : p >= q

\* The row (1-based) at which the for loop breaks: the lowest row whose column
\* col matches key; 0 when the loop ends at the sentinel.
DictionaryScan(col, key) ==
  LET hits == {p \in DictionaryRows :
                 strcasecmpEq(GettextModifierToUnicodeScriptDictionary[p][col], key)}
  IN  IF hits = {} THEN 0 ELSE CHOOSE p \in hits : \A q \in hits : p <= q

GettextModifierToUnicodeScript(gettextModifier) ==
  IF gettextModifier # NULL /\ gettextModifier # <<>>
    THEN LET p == DictionaryScan(1, gettextModifier)
         IN  IF p = 0 THEN NULL ELSE GettextModifierToUnicodeScriptDictionary[p][2]
    ELSE NULL

UnicodeScriptToGettextModifier(unicodeScript) ==
  IF unicodeScript # NULL /\ unicodeScript # <<>>
    THEN LET p == DictionaryScan(2, unicodeScript)
         IN  IF p = 0 THEN NULL ELSE GettextModifierToUnicodeScriptDictionary[p][1]
    ELSE NULL

(***************************************************************************)
(* LocaleChunks                                                            *)
(***************************************************************************)

\* The null LocaleChunks pointer.
NULLChunks == [null |-> TRUE]

\* calloc(1, sizeof(LocaleChunks)): every member zero.  variantCount is
\* Len(variants).
ZeroedLocaleChunks ==
  [isRoot |-> FALSE, language |-> NULL, territory |-> NULL, codeset |-> NULL,
   modifier |-> NULL, script |-> NULL, variants |-> <<>>]

\* The n-th allocation of a call fails when n is in oom.
AllocFails(oom, n) == n \in oom

\* strndup(s + from, n) as the n-th', i.e. `ordinal`-th, allocation of the call.
strndup(s, from, n, oom, ordinal) ==
  IF AllocFails(oom, ordinal) THEN NULL ELSE Sub(s, from, n)

(***************************************************************************)
(* GettextLocaleIDToLocaleChunks                                           *)
(***************************************************************************)

\* A test that compares p with the separator itself, so it never fires.
EmptyChunkAccepted(p, separator) == p = separator

\* Empty chunk: p stands right after the separator.
EmptyChunk(p, separator) == p = separator + 1

\* Duplicated or misplaced territory
TerritoryMisplaced(result) ==
  result.territory # NULL \/ result.codeset # NULL \/ result.modifier # NULL

\* A check that refuses a second codeset only.
CodesetDuplicated(result) == result.codeset # NULL

\* Duplicated or misplaced codeset
CodesetMisplaced(result) == result.codeset # NULL \/ result.modifier # NULL

\* Duplicated modifier
ModifierMisplaced(result) == result.modifier # NULL

\* The for loop over p.  separator is the offset of the last separator seen
\* (-1 for the null pointer), allocs the number of allocations made so far.
\* Returns the record (or NULLChunks) and the number of allocations made.
RECURSIVE GettextScan(_, _, _, _, _, _)
GettextScan(locale, oom, p, separator, result, allocs) ==
  IF separator # -1 /\ At(locale, separator) = NUL
    THEN [lc |-> result, allocs |-> allocs]
  ELSE
    LET c == At(locale, p)
        failure == [lc |-> NULLChunks, allocs |-> allocs]
        chunk(n) == strndup(locale, separator + 1, p - separator - 1, oom, n)
    IN
    IF c \in {"_", ".", "@", NUL} THEN
      IF result = NULLChunks THEN
        \* First chunk: language
        IF p = 0 THEN failure
        ELSE IF AllocFails(oom, allocs + 1)
          THEN [lc |-> NULLChunks, allocs |-> allocs + 1]
        ELSE GettextScan(locale, oom, p + 1, p,
               [ZeroedLocaleChunks EXCEPT
                  !.language = strndup(locale, 0, p, oom, allocs + 2)],
               allocs + 2)
      ELSE IF EmptyChunk(p, separator) THEN failure
      ELSE IF At(locale, separator) = "_" THEN
        IF TerritoryMisplaced(result)
          THEN failure
          ELSE GettextScan(locale, oom, p + 1, p,
                 [result EXCEPT !.territory = chunk(allocs + 1)], allocs + 1)
      ELSE IF At(locale, separator) = "." THEN
        IF CodesetMisplaced(result)
          THEN failure
          ELSE GettextScan(locale, oom, p + 1, p,
                 [result EXCEPT !.codeset = chunk(allocs + 1)], allocs + 1)
      ELSE \* '@'
        IF ModifierMisplaced(result)
          THEN failure
          ELSE GettextScan(locale, oom, p + 1, p,
                 [result EXCEPT !.modifier = chunk(allocs + 1)], allocs + 1)
    ELSE IF ~isalnum(c) THEN failure
    ELSE GettextScan(locale, oom, p + 1, separator, result, allocs)

GettextLocaleIDToLocaleChunks(locale, oom) ==
  IF locale = NULL THEN [lc |-> NULLChunks, allocs |-> 0]
  ELSE GettextScan(locale, oom, 0, -1, NULLChunks, 0)

(***************************************************************************)
(* LocaleChunksToGettextLocaleID                                           *)
(***************************************************************************)

\* A serializer that forgets the codeset.
LocaleChunksToGettextLocaleIDNoCodeset(lc, oom) ==
  IF lc # NULLChunks /\ lc.language # NULL THEN
    LET modifier == IF lc.modifier # NULL THEN lc.modifier
                    ELSE UnicodeScriptToGettextModifier(lc.script)
    IN  IF AllocFails(oom, 1) THEN NULL
        ELSE lc.language
               \o (IF lc.territory # NULL THEN <<"_">> \o lc.territory ELSE <<>>)
               \o (IF modifier # NULL THEN <<"@">> \o modifier ELSE <<>>)
  ELSE NULL

\* A serializer that never derives the modifier from the script.
LocaleChunksToGettextLocaleIDNoScript(lc, oom) ==
  IF lc # NULLChunks /\ lc.language # NULL THEN
    IF AllocFails(oom, 1) THEN NULL
    ELSE lc.language
           \o (IF lc.territory # NULL THEN <<"_">> \o lc.territory ELSE <<>>)
           \o (IF lc.codeset # NULL THEN <<".">> \o lc.codeset ELSE <<>>)
           \o (IF lc.modifier # NULL THEN <<"@">> \o lc.modifier ELSE <<>>)
  ELSE NULL

LocaleChunksToGettextLocaleID(lc, oom) ==
  IF lc # NULLChunks /\ lc.language # NULL THEN
    LET modifier == IF lc.modifier # NULL THEN lc.modifier
                    ELSE UnicodeScriptToGettextModifier(lc.script)
    IN  IF AllocFails(oom, 1) THEN NULL
        ELSE lc.language
               \o (IF lc.territory # NULL THEN <<"_">> \o lc.territory ELSE <<>>)
               \o (IF lc.codeset # NULL THEN <<".">> \o lc.codeset ELSE <<>>)
               \o (IF modifier # NULL THEN <<"@">> \o modifier ELSE <<>>)
  ELSE NULL

(***************************************************************************)
(* UnicodeLocaleIDToLocaleChunks                                           *)
(***************************************************************************)

\* The tokenizing loop: chunks[k] and chunkLengths[k] as [start, len] records.
RECURSIVE UnicodeSplit(_, _, _, _)
UnicodeSplit(locale, p, chunkStart, chunks) ==
  LET c == At(locale, p) IN
  IF c \in {"-", "_", NUL} THEN
    IF p = chunkStart THEN [badData |-> TRUE, chunks |-> chunks]
    ELSE LET more == Append(chunks, [start |-> chunkStart, len |-> p - chunkStart])
         IN  IF c = NUL THEN [badData |-> FALSE, chunks |-> more]
             ELSE UnicodeSplit(locale, p + 1, p + 1, more)
  ELSE IF ~isalnum(c) THEN [badData |-> TRUE, chunks |-> chunks]
  ELSE UnicodeSplit(locale, p + 1, chunkStart, chunks)

\* chunks[k][i], k and i 0-based
ChunkChar(locale, chunks, k, i) == At(locale, chunks[k + 1].start + i)

ChunkLength(chunks, k) == chunks[k + 1].len

ChunkDup(locale, chunks, k, oom, ordinal) ==
  strndup(locale, chunks[k + 1].start, chunks[k + 1].len, oom, ordinal)

\* A root test that ignores case.
IsRootNoCase(locale, chunks) ==
  ChunkLength(chunks, 0) = 4
    /\ strcasecmpEq(<<"r", "o", "o", "t">>, Sub(locale, chunks[1].start, 4))

\* First chunk: "root"
IsRoot(locale, chunks) ==
  ChunkLength(chunks, 0) = 4 /\ strncmpEq(<<"r", "o", "o", "t">>, locale, chunks[1].start, 4)

\* "root", or language and/or script.  st is
\* [result, badData, nextChunk, allocs].
UnicodeFirstChunks(locale, oom, chunks, st) ==
  IF IsRoot(locale, chunks)
    THEN [st EXCEPT !.result.isRoot = TRUE, !.nextChunk = 1]
  ELSE
    LET s1 ==
          IF ChunkLength(chunks, 0) >= 2 /\ ChunkLength(chunks, 0) <= 3 THEN
            IF /\ isalpha(ChunkChar(locale, chunks, 0, 0))
               /\ isalpha(ChunkChar(locale, chunks, 0, 1))
               /\ (ChunkLength(chunks, 0) = 2 \/ isalpha(ChunkChar(locale, chunks, 0, 2)))
              THEN LET language == ChunkDup(locale, chunks, 0, oom, st.allocs + 1)
                   IN  [st EXCEPT !.result.language = language,
                                  !.badData = (language = NULL),
                                  !.nextChunk = 1,
                                  !.allocs = st.allocs + 1]
              ELSE [st EXCEPT !.badData = TRUE, !.nextChunk = 1]
          ELSE [st EXCEPT !.nextChunk = 0]
        n == s1.nextChunk
    IN
    IF /\ n < Len(chunks)
       /\ ChunkLength(chunks, n) = 4
       /\ isalpha(ChunkChar(locale, chunks, n, 0))
       /\ isalpha(ChunkChar(locale, chunks, n, 1))
       /\ isalpha(ChunkChar(locale, chunks, n, 2))
       /\ isalpha(ChunkChar(locale, chunks, n, 3))
      THEN LET script == ChunkDup(locale, chunks, n, oom, s1.allocs + 1)
           IN  [s1 EXCEPT !.result.script = script,
                          !.badData = s1.badData \/ (script = NULL),
                          !.nextChunk = n + 1,
                          !.allocs = s1.allocs + 1]
    ELSE IF n = 0 THEN [s1 EXCEPT !.badData = TRUE]
    ELSE s1

\* A test of the three characters of the chunk.
RegionThreeDigits(locale, chunks, n) ==
  /\ isdigit(ChunkChar(locale, chunks, n, 0))
  /\ isdigit(ChunkChar(locale, chunks, n, 1))
  /\ isdigit(ChunkChar(locale, chunks, n, 2))

\* The test of a 3-character region chunk: its characters 0 and 1 and the
\* character at index 3, which is the separator or the NUL after the chunk.
RegionDigits(locale, chunks, n) ==
  /\ isdigit(ChunkChar(locale, chunks, n, 0))
  /\ isdigit(ChunkChar(locale, chunks, n, 1))
  /\ isdigit(ChunkChar(locale, chunks, n, 3))

\* The optional region tag.
UnicodeRegion(locale, oom, chunks, st) ==
  LET n == st.nextChunk IN
  IF ~st.badData /\ n < Len(chunks) THEN
    IF ChunkLength(chunks, n) = 2 THEN
      IF isalpha(ChunkChar(locale, chunks, n, 0)) /\ isalpha(ChunkChar(locale, chunks, n, 1))
        THEN LET territory == ChunkDup(locale, chunks, n, oom, st.allocs + 1)
             IN  [st EXCEPT !.result.territory = territory,
                            !.badData = (territory = NULL),
                            !.nextChunk = n + 1,
                            !.allocs = st.allocs + 1]
        ELSE [st EXCEPT !.badData = TRUE, !.nextChunk = n + 1]
    ELSE IF ChunkLength(chunks, n) = 3 THEN
      IF RegionDigits(locale, chunks, n)
        THEN LET territory == ChunkDup(locale, chunks, n, oom, st.allocs + 1)
             IN  [st EXCEPT !.result.territory = territory,
                            !.badData = (territory = NULL),
                            !.nextChunk = n + 1,
                            !.allocs = st.allocs + 1]
        ELSE [st EXCEPT !.badData = TRUE, !.nextChunk = n + 1]
    ELSE st
  ELSE st

\* A switch whose case 4 accepts any four alphanumerics.
VariantSwitchBadAnyFour(locale, chunks, n) ==
  LET len == ChunkLength(chunks, n) IN
  IF len \in 4..8
    THEN \E i \in 0..(len - 1) : ~isalnum(ChunkChar(locale, chunks, n, i))
    ELSE FALSE

\* The switch on chunkLengths[nextChunk]: TRUE when it sets badData.  Cases 8
\* to 5 fall through, so a chunk of length n in 5..8 has its characters 4 to
\* n - 1 checked; a length with no case label is left alone.
VariantSwitchBad(locale, chunks, n) ==
  LET len == ChunkLength(chunks, n) IN
  IF len \in 5..8
    THEN \E i \in 4..(len - 1) : ~isalnum(ChunkChar(locale, chunks, n, i))
  ELSE IF len = 4
    THEN ~ (/\ isdigit(ChunkChar(locale, chunks, n, 0))
            /\ isalnum(ChunkChar(locale, chunks, n, 1))
            /\ isalnum(ChunkChar(locale, chunks, n, 2))
            /\ isalnum(ChunkChar(locale, chunks, n, 3)))
  ELSE FALSE

\* The while loop over the variant tags: badData after it.
RECURSIVE UnicodeVariantCheck(_, _, _, _)
UnicodeVariantCheck(locale, chunks, nextChunk, badData) ==
  IF ~badData /\ nextChunk < Len(chunks)
    THEN UnicodeVariantCheck(locale, chunks, nextChunk + 1,
                             VariantSwitchBad(locale, chunks, nextChunk))
    ELSE badData

\* The for loop copying the variant tags, stopping at the first failed copy.
RECURSIVE UnicodeVariantCopy(_, _, _, _, _)
UnicodeVariantCopy(locale, oom, chunks, nextChunk, st) ==
  IF nextChunk < Len(chunks) THEN
    LET v == ChunkDup(locale, chunks, nextChunk, oom, st.allocs + 1)
        s1 == [st EXCEPT !.result.variants = Append(@, v), !.allocs = st.allocs + 1]
    IN  IF v = NULL THEN [s1 EXCEPT !.badData = TRUE]
        ELSE UnicodeVariantCopy(locale, oom, chunks, nextChunk + 1, s1)
  ELSE st

UnicodeVariants(locale, oom, chunks, st) ==
  IF ~st.badData THEN
    LET initialVariantChunk == st.nextChunk
        bad == UnicodeVariantCheck(locale, chunks, st.nextChunk, FALSE)
    IN  IF bad THEN [st EXCEPT !.badData = TRUE]
        ELSE IF Len(chunks) - initialVariantChunk > 0 THEN
          IF AllocFails(oom, st.allocs + 1)
            THEN [st EXCEPT !.badData = TRUE, !.allocs = st.allocs + 1]
            ELSE UnicodeVariantCopy(locale, oom, chunks, initialVariantChunk,
                                    [st EXCEPT !.allocs = st.allocs + 1])
        ELSE st
  ELSE st

\* Returns the record (or NULLChunks) and the number of allocations made.
UnicodeLocaleIDToLocaleChunks(locale, oom) ==
  IF locale = NULL \/ locale = <<>> THEN [lc |-> NULLChunks, allocs |-> 0]
  ELSE IF AllocFails(oom, 1) THEN [lc |-> NULLChunks, allocs |-> 1]
  ELSE IF AllocFails(oom, 2) THEN [lc |-> NULLChunks, allocs |-> 2]
  ELSE
    LET split == UnicodeSplit(locale, 0, 0, <<>>) IN
    IF split.badData THEN [lc |-> NULLChunks, allocs |-> 2]
    ELSE IF AllocFails(oom, 3) THEN [lc |-> NULLChunks, allocs |-> 3]
    ELSE
      LET s0 == [result |-> ZeroedLocaleChunks, badData |-> FALSE,
                 nextChunk |-> 0, allocs |-> 3]
          s1 == UnicodeFirstChunks(locale, oom, split.chunks, s0)
          s2 == UnicodeRegion(locale, oom, split.chunks, s1)
          s3 == UnicodeVariants(locale, oom, split.chunks, s2)
      IN  [lc |-> IF s3.badData THEN NULLChunks ELSE s3.result,
           allocs |-> s3.allocs]

(***************************************************************************)
(* LocaleChunksToUnicodeLocaleID                                           *)
(***************************************************************************)

\* A loop that stops one variant short.
RECURSIVE VariantsTailShort(_, _)
VariantsTailShort(variants, i) ==
  IF i + 1 < Len(variants)
    THEN <<"_">> \o variants[i + 1] \o VariantsTailShort(variants, i + 1)
    ELSE <<>>

\* strcat of "_" and each variant, in stored order
RECURSIVE VariantsTail(_, _)
VariantsTail(variants, i) ==
  IF i < Len(variants)
    THEN <<"_">> \o variants[i + 1] \o VariantsTail(variants, i + 1)
    ELSE <<>>

\* A serializer that reads the script member only.
LocaleChunksToUnicodeLocaleIDNoModifier(lc, oom) ==
  LET script == IF lc # NULLChunks THEN lc.script ELSE NULL
  IN
  IF lc # NULLChunks /\ (lc.isRoot \/ lc.language # NULL \/ script # NULL) THEN
    IF AllocFails(oom, 1) THEN NULL
    ELSE (IF lc.isRoot THEN <<"r", "o", "o", "t">>
          ELSE IF lc.language # NULL
            THEN lc.language \o (IF script # NULL THEN <<"_">> \o script ELSE <<>>)
          ELSE script)
           \o (IF lc.territory # NULL THEN <<"_">> \o lc.territory ELSE <<>>)
           \o VariantsTail(lc.variants, 0)
  ELSE NULL

LocaleChunksToUnicodeLocaleID(lc, oom) ==
  LET script == IF lc # NULLChunks
                  THEN (IF lc.script # NULL THEN lc.script
                        ELSE GettextModifierToUnicodeScript(lc.modifier))
                  ELSE NULL
  IN
  IF lc # NULLChunks /\ (lc.isRoot \/ lc.language # NULL \/ script # NULL) THEN
    IF AllocFails(oom, 1) THEN NULL
    ELSE (IF lc.isRoot THEN <<"r", "o", "o", "t">>
          ELSE IF lc.language # NULL
            THEN lc.language \o (IF script # NULL THEN <<"_">> \o script ELSE <<>>)
          ELSE script)
           \o (IF lc.territory # NULL THEN <<"_">> \o lc.territory ELSE <<>>)
           \o VariantsTail(lc.variants, 0)
  ELSE NULL

(***************************************************************************)
(* Inputs                                                                  *)
(***************************************************************************)

\* The most chunks of a generated Gettext-shaped identifier.
MaxGettextChunks == 4

\* The most tokens of a generated Unicode-shaped identifier.
MaxUnicodeTokens == 3

\* The largest ordinal of an allocation that may fail within one call.
MaxAllocs == 9

TestIds ==
 { NULL,
   <<"i", "t", "_", "I", "T", ".", "u", "t", "f", "8", "@", "e", "u", "r", "o">>,
   <<"i", "t", "_", "I", "T", ".", "u", "t", "f", "8">>,
   <<"i", "t", "_", "I", "T", "@", "e", "u", "r", "o">>,
   <<"i", "t", "@", "e", "u", "r", "o">>,
   <<"i", "t", ".", "u", "t", "f", "8">>,
   <<"i", "t", "_", "I", "T">>,
   <<"i", "t">>,
   <<"i", "t", "@", "l", "a", "t", "i", "n">>,
   <<"i", "t", "-", "L", "a", "t", "n", "-", "I", "T", "-", "P", "O", "S", "I", "X", "-", "N", "Y", "N", "O", "R", "S", "K">>,
   <<"i", "t", "-", "L", "a", "t", "n", "-", "I", "T", "-", "P", "O", "S", "I", "X">>,
   <<"i", "t", "-", "L", "a", "t", "n", "-", "I", "T", "-", "N", "Y", "N", "O", "R", "S", "K">>,
   <<"i", "t", "-", "L", "a", "t", "n", "-", "I", "T">>,
   <<"i", "t", "-", "L", "a", "t", "n", "-", "P", "O", "S", "I", "X", "-", "N", "Y", "N", "O", "R", "S", "K">>,
   <<"i", "t", "-", "L", "a", "t", "n", "-", "P", "O", "S", "I", "X">>,
   <<"i", "t", "-", "L", "a", "t", "n", "-", "N", "Y", "N", "O", "R", "S", "K">>,
   <<"i", "t", "-", "L", "a", "t", "n">>,
   <<"i", "t", "-", "I", "T", "-", "P", "O", "S", "I", "X", "-", "N", "Y", "N", "O", "R", "S", "K">>,
   <<"i", "t", "-", "I", "T", "-", "P", "O", "S", "I", "X">>,
   <<"i", "t", "-", "I", "T", "-", "N", "Y", "N", "O", "R", "S", "K">>,
   <<"i", "t", "-", "I", "T">>,
   <<"i", "t", "-", "P", "O", "S", "I", "X", "-", "N", "Y", "N", "O", "R", "S", "K">>,
   <<"i", "t", "-", "P", "O", "S", "I", "X">>,
   <<"i", "t", "-", "N", "Y", "N", "O", "R", "S", "K">>,
   <<"L", "a", "t", "n", "-", "I", "T", "-", "P", "O", "S", "I", "X", "-", "N", "Y", "N", "O", "R", "S", "K">>,
   <<"L", "a", "t", "n", "-", "I", "T", "-", "P", "O", "S", "I", "X">>,
   <<"L", "a", "t", "n", "-", "I", "T", "-", "N", "Y", "N", "O", "R", "S", "K">>,
   <<"L", "a", "t", "n", "-", "I", "T">>,
   <<"L", "a", "t", "n", "-", "P", "O", "S", "I", "X", "-", "N", "Y", "N", "O", "R", "S", "K">>,
   <<"L", "a", "t", "n", "-", "P", "O", "S", "I", "X">>,
   <<"L", "a", "t", "n", "-", "N", "Y", "N", "O", "R", "S", "K">>,
   <<"r", "o", "o", "t", "-", "L", "a", "t", "n">>,
   <<"r", "o", "o", "t", "-", "I", "T">>,
   <<>>,
   <<" ">>,
   <<" ", " ">>,
   <<"f", "o", "o", "@", "b", "a", "r", "@", "b", "a", "z">> }

GettextChunkPool ==
  { <<>>, <<"i", "t">>, <<"u", "t", "f", "8">>, <<"l", "a", "t", "i", "n">>, <<" ">> }

GettextSeparators == {"_", ".", "@"}

UnicodeTokenPool ==
  { <<>>, <<" ">>, <<"a">>, <<"i", "t">>, <<"1", "2">>, <<"i", "t", "a">>,
    <<"4", "1", "9">>, <<"r", "o", "o", "t">>, <<"L", "a", "t", "n">>,
    <<"1", "a", "b", "c">>, <<"P", "O", "S", "I", "X">>,
    <<"a", "b", "c", "d", "e", "f", "g", "h", "i">> }

UnicodeSeparators == {"-", "_"}

\* The n pieces joined by the n - 1 separators: pieces[1] separators[1]
\* pieces[2] ... pieces[n].
RECURSIVE Joined(_, _, _)
Joined(pieces, separators, n) ==
  IF n = 1 THEN pieces[1]
  ELSE Joined(pieces, separators, n - 1) \o <<separators[n - 1]>> \o pieces[n]

\* Further identifiers: the documented ordering failure, a numeric region,
\* an upper-case "root", modifiers and scripts of other crosswalk rows.
MoreIds ==
  { <<"i", "t", ".", "u", "t", "f", "8", "_", "I", "T">>,
    <<"e", "s", "-", "4", "1", "9">>,
    <<"R", "O", "O", "T">>,
    <<"R", "O", "O", "T", "-", "I", "T">>,
    <<"r", "o", "o", "t", "-", "I", "T", "-", "1", "a", "b", "c">>,
    <<"i", "t", "-", "I", "t", "a", "l">>,
    <<"k", "a", "-", "G", "e", "o", "r", "-", "G", "E">>,
    <<"k", "a", "-", "G", "e", "o", "k">>,
    <<"k", "a", "_", "G", "E", "@", "g", "e", "o", "r", "g", "i", "a", "n">>,
    <<"s", "r", "@", "L", "A", "T", "I", "N">>,
    <<"i", "t", "-", "I", "T", "-", "L", "a", "t", "n">> }

\* Identifiers with a second territory, codeset or modifier.
RepeatedIds ==
  { <<"i", "t", "_", "I", "T", "_", "X", "X">>,
    <<"i", "t", ".", "u", "t", "f", "8", ".", "x">>,
    <<"i", "t", "@", "a", "@", "b">>,
    <<"i", "t", "_", "I", "T", "@", "a", ".", "b">> }

\* A language followed by each script of the table.
ScriptIds ==
  {<<"i", "t", "-">> \o GettextModifierToUnicodeScriptDictionary[p][2] :
     p \in DictionaryRows}

Inputs == TestIds \cup MoreIds \cup RepeatedIds \cup ScriptIds

OomChoices == SUBSET (1..MaxAllocs)

ToUpper(s) ==
  [i \in 1..Len(s) |->
     IF \E k \in 1..26 : LowerCase[k] = s[i]
       THEN UpperCase[CHOOSE k \in 1..26 : LowerCase[k] = s[i]]
       ELSE s[i]]

\* Arguments of the two crosswalk lookups: every cell of the table, as written
\* and in upper case, keys that match no row, the empty string and NULL.
LookupKeys ==
  LET cells == {GettextModifierToUnicodeScriptDictionary[p][col] :
                  p \in DictionaryRows, col \in 1..2}
  IN  cells \cup {ToUpper(k) : k \in cells}
        \cup {NULL, <<>>, <<"e", "u", "r", "o">>, <<"l", "a", "t", "i">>,
              <<"L", "a", "t", "n", "x">>, <<"i", "t">>}

(***************************************************************************)
(* The caller: main() and Test()                                           *)
(***************************************************************************)

\* A result not computed yet.
UNSET == <<"UNSET">>

VARIABLES
  id,         \* the identifier under test, or the key of a lookup
  pc,         \* "ready", "test", "parsed", "looked"
  call,       \* the parser or lookup called last
  lc,         \* the LocaleChunks returned by the parser
  allocs,     \* allocations made by the parser call
  failed,     \* ordinals of the allocations that failed in the parser call
  gettextID,  \* result of LocaleChunksToGettextLocaleID(lc)
  unicodeID,  \* result of LocaleChunksToUnicodeLocaleID(lc)
  lookup,     \* result of a crosswalk lookup
  fed         \* where id comes from when it is a serializer's output

vars == <<id, pc, call, lc, allocs, failed, gettextID, unicodeID, lookup, fed>>

NotFed == [by |-> "none", out |-> "none", from |-> NULL]

Init ==
  /\ id = NULL
  /\ pc = "ready"
  /\ call = "none"
  /\ lc = NULLChunks
  /\ allocs = 0
  /\ failed = {}
  /\ gettextID = UNSET
  /\ unicodeID = UNSET
  /\ lookup = UNSET
  /\ fed = NotFed

\* Test(x): the next identifier to try, x one of inputs.
Test(inputs) ==
  /\ pc = "ready"
  /\ \E x \in inputs : id' = x
  /\ pc' = "test"
  /\ UNCHANGED <<call, lc, allocs, failed, gettextID, unicodeID, lookup, fed>>

\* Test(x) for x any identifier of at most max pieces of pool joined by
\* separators of seps.
TestJoined(pool, seps, max) ==
  /\ pc = "ready"
  /\ \E n \in 1..max :
       \E pieces \in [1..n -> pool] :
         \E separators \in [1..(n - 1) -> seps] :
           id' = Joined(pieces, separators, n)
  /\ pc' = "test"
  /\ UNCHANGED <<call, lc, allocs, failed, gettextID, unicodeID, lookup, fed>>

Parsed(name, r, oom) ==
  /\ pc = "test"
  /\ lc' = r.lc
  /\ allocs' = r.allocs
  /\ failed' = oom \cap (1..r.allocs)
  /\ call' = name
  /\ pc' = "parsed"
  /\ UNCHANGED <<id, gettextID, unicodeID, lookup, fed>>

\* lc = GettextLocaleIDToLocaleChunks(id)
CallGettextLocaleIDToLocaleChunks(oom) ==
  Parsed("GettextLocaleIDToLocaleChunks", GettextLocaleIDToLocaleChunks(id, oom), oom)

\* lc = UnicodeLocaleIDToLocaleChunks(id)
CallUnicodeLocaleIDToLocaleChunks(oom) ==
  Parsed("UnicodeLocaleIDToLocaleChunks", UnicodeLocaleIDToLocaleChunks(id, oom), oom)

\* LocaleChunksToGettextLocaleID(lc), as DumpLocaleChunks calls it
CallLocaleChunksToGettextLocaleID(oom) ==
  /\ pc = "parsed"
  /\ lc # NULLChunks
  /\ gettextID = UNSET
  /\ gettextID' = LocaleChunksToGettextLocaleID(lc, oom)
  /\ UNCHANGED <<id, pc, call, lc, allocs, failed, unicodeID, lookup, fed>>

\* LocaleChunksToUnicodeLocaleID(lc), as DumpLocaleChunks calls it
CallLocaleChunksToUnicodeLocaleID(oom) ==
  /\ pc = "parsed"
  /\ lc # NULLChunks
  /\ unicodeID = UNSET
  /\ unicodeID' = LocaleChunksToUnicodeLocaleID(lc, oom)
  /\ UNCHANGED <<id, pc, call, lc, allocs, failed, gettextID, lookup, fed>>

\* Both serializers called on a null LocaleChunks pointer.
CallSerializersOnNull ==
  /\ pc = "ready"
  /\ call' = "serializers"
  /\ gettextID' = LocaleChunksToGettextLocaleID(NULLChunks, {})
  /\ unicodeID' = LocaleChunksToUnicodeLocaleID(NULLChunks, {})
  /\ pc' = "looked"
  /\ UNCHANGED <<id, lc, allocs, failed, lookup, fed>>

\* FreeLocaleChunks(lc) and the return to main.
Return ==
  /\ pc \in {"parsed", "looked"}
  /\ id' = NULL
  /\ pc' = "ready"
  /\ call' = "none"
  /\ lc' = NULLChunks
  /\ allocs' = 0
  /\ failed' = {}
  /\ gettextID' = UNSET
  /\ unicodeID' = UNSET
  /\ lookup' = UNSET
  /\ fed' = NotFed

\* A serializer's output is tested as an identifier in its turn.
Retest(out, which) ==
  /\ pc = "parsed"
  /\ fed = NotFed
  /\ failed = {}
  /\ out \notin {UNSET, NULL}
  /\ fed' = [by |-> call, out |-> which, from |-> id]
  /\ id' = out
  /\ pc' = "test"
  /\ call' = "none"
  /\ lc' = NULLChunks
  /\ allocs' = 0
  /\ gettextID' = UNSET
  /\ unicodeID' = UNSET
  /\ UNCHANGED <<failed, lookup>>

RetestGettextID == Retest(gettextID, "gettextID")

RetestUnicodeID == Retest(unicodeID, "unicodeID")

Looked(name, key, result) ==
  /\ id' = key
  /\ call' = name
  /\ lookup' = result
  /\ pc' = "looked"
  /\ UNCHANGED <<lc, allocs, failed, gettextID, unicodeID, fed>>

\* GettextModifierToUnicodeScript(key), key one of keys
CallGettextModifierToUnicodeScript(keys) ==
  /\ pc = "ready"
  /\ \E key \in keys :
       Looked("GettextModifierToUnicodeScript", key, GettextModifierToUnicodeScript(key))

\* UnicodeScriptToGettextModifier(key), key one of keys
CallUnicodeScriptToGettextModifier(keys) ==
  /\ pc = "ready"
  /\ \E key \in keys :
       Looked("UnicodeScriptToGettextModifier", key, UnicodeScriptToGettextModifier(key))

\* Every allocation succeeds.
Next ==
  \/ Test(Inputs)
  \/ TestJoined(GettextChunkPool, GettextSeparators, MaxGettextChunks)
  \/ TestJoined(UnicodeTokenPool, UnicodeSeparators, MaxUnicodeTokens)
  \/ CallGettextLocaleIDToLocaleChunks({})
  \/ CallUnicodeLocaleIDToLocaleChunks({})
  \/ CallLocaleChunksToGettextLocaleID({})
  \/ CallLocaleChunksToUnicodeLocaleID({})
  \/ CallSerializersOnNull
  \/ RetestGettextID
  \/ RetestUnicodeID
  \/ CallGettextModifierToUnicodeScript(LookupKeys)
  \/ CallUnicodeScriptToGettextModifier(LookupKeys)
  \/ Return

Spec == Init /\ [][Next]_vars

\* Any allocation of a parser call may fail.
NextOom ==
  \/ Test(Inputs)
  \/ \E oom \in OomChoices : CallGettextLocaleIDToLocaleChunks(oom)
  \/ \E oom \in OomChoices : CallUnicodeLocaleIDToLocaleChunks(oom)
  \/ \E oom \in OomChoices : CallLocaleChunksToGettextLocaleID(oom)
  \/ \E oom \in OomChoices : CallLocaleChunksToUnicodeLocaleID(oom)
  \/ Return

SpecOom == Init /\ [][NextOom]_vars

(***************************************************************************)
(* Properties                                                              *)
(***************************************************************************)

GettextParsed == pc = "parsed" /\ call = "GettextLocaleIDToLocaleChunks"

UnicodeParsed == pc = "parsed" /\ call = "UnicodeLocaleIDToLocaleChunks"

\* The offsets (1-based) of x at which a character of seps stands.
SeparatorsAt(x, seps) == {i \in 1..Len(x) : x[i] \in seps}

\* x has a character that is neither alphanumeric nor in seps.
HasIllegalCharacter(x, seps) ==
  \E i \in 1..Len(x) : ~(x[i] \in seps) /\ ~(x[i] \in Alpha \cup Digit)

\* x has an empty chunk: a leading, trailing or doubled separator.
HasEmptyChunk(x, seps) ==
  \/ x = <<>>
  \/ x[1] \in seps
  \/ x[Len(x)] \in seps
  \/ \E i \in 1..(Len(x) - 1) : x[i] \in seps /\ x[i + 1] \in seps

\* The chunk of x that starts right after offset i (0 for the start of x) and
\* runs to the next separator or to the end.
ChunkFrom(x, i, seps) ==
  LET later == {j \in SeparatorsAt(x, seps) : j > i}
      end == IF later = {} THEN Len(x) + 1
             ELSE CHOOSE j \in later : \A k \in later : j <= k
  IN  SubSeq(x, i + 1, end - 1)

\* The chunk introduced by separator s, NULL when s is not in x.
ChunkAfter(x, s, seps) ==
  IF \E i \in 1..Len(x) : x[i] = s
    THEN ChunkFrom(x, CHOOSE i \in 1..Len(x) : x[i] = s, seps)
    ELSE NULL

GettextRank(s) == CASE s = "_" -> 1 [] s = "." -> 2 [] s = "@" -> 3

\* x is language[_territory][.codeset][@modifier].
GettextForm(x) ==
  /\ x # NULL
  /\ ~HasIllegalCharacter(x, GettextSeparators)
  /\ ~HasEmptyChunk(x, GettextSeparators)
  /\ \A i, j \in SeparatorsAt(x, GettextSeparators) :
       i < j => GettextRank(x[i]) < GettextRank(x[j])

\* The record the Gettext grammar assigns to x.
GettextRecord(x) ==
  [ZeroedLocaleChunks EXCEPT
     !.language = ChunkFrom(x, 0, GettextSeparators),
     !.territory = ChunkAfter(x, "_", GettextSeparators),
     !.codeset = ChunkAfter(x, ".", GettextSeparators),
     !.modifier = ChunkAfter(x, "@", GettextSeparators)]

\* C1: GettextLocaleIDToLocaleChunks accepts exactly the strings of the form
\* language[_territory][.codeset][@modifier] (non-empty alphanumeric chunks,
\* each separator at most once and in that order); the record holds exactly
\* the chunks of the string, and every other string, "it.utf8_IT" among them,
\* yields NULL.
C1_GettextGrammar ==
  GettextParsed =>
    /\ IF GettextForm(id) THEN lc = GettextRecord(id) ELSE lc = NULLChunks
    /\ id = <<"i", "t", ".", "u", "t", "f", "8", "_", "I", "T">> => lc = NULLChunks

C1_Witness ==
  /\ GettextParsed
  /\ lc # NULLChunks
  /\ lc.territory # NULL /\ lc.codeset # NULL /\ lc.modifier # NULL
  /\ lc.language = <<"i", "t">>

\* x with every '-' turned into '_': the tokens of x joined by '_'.
Underscored(x) == [i \in 1..Len(x) |-> IF x[i] = "-" THEN "_" ELSE x[i]]

\* id is the Unicode ID serialized from a record the Unicode parser returned.
FedUnicodeID ==
  fed.by = "UnicodeLocaleIDToLocaleChunks" /\ fed.out = "unicodeID"

\* C2: for every string x the Unicode parser accepts, the Unicode serializer
\* returns a string y, y is the tokens of x joined by '_', the Unicode parser
\* accepts y and the serializer turns that record into y again.
C2_UnicodeStable ==
  /\ (UnicodeParsed /\ lc # NULLChunks /\ unicodeID # UNSET)
       => unicodeID # NULL /\ unicodeID = Underscored(id)
  /\ (UnicodeParsed /\ FedUnicodeID)
       => /\ lc # NULLChunks
          /\ id = Underscored(fed.from)
          /\ unicodeID # UNSET => unicodeID = id

C2_Witness ==
  /\ UnicodeParsed
  /\ FedUnicodeID
  /\ unicodeID = id
  /\ fed.from # id
  /\ Len(lc.variants) > 1
  /\ lc.territory # NULL

\* alphanum{5,8} or digit+alphanum{3}
VariantShape(v) ==
  \/ Len(v) \in 5..8 /\ \A i \in 1..Len(v) : v[i] \in Alpha \cup Digit
  \/ Len(v) = 4 /\ v[1] \in Digit /\ \A i \in 2..4 : v[i] \in Alpha \cup Digit

\* C3: every token left after the root/language/script and region steps has
\* one of the two variant shapes, or else the parse returns NULL: a returned
\* record holds variants of those shapes only.
C3_VariantShapes ==
  (UnicodeParsed /\ lc # NULLChunks) =>
    \A i \in 1..Len(lc.variants) : VariantShape(lc.variants[i])

\* The Gettext ID of a record with a language.
GettextIDOf(r) ==
  LET x == IF r.modifier # NULL THEN r.modifier
           ELSE UnicodeScriptToGettextModifier(r.script)
  IN  r.language
        \o (IF r.territory # NULL THEN <<"_">> \o r.territory ELSE <<>>)
        \o (IF r.codeset # NULL THEN <<".">> \o r.codeset ELSE <<>>)
        \o (IF x # NULL THEN <<"@">> \o x ELSE <<>>)

\* C4: LocaleChunksToGettextLocaleID returns NULL exactly when the record or
\* its language is NULL; otherwise language, '_' territory, '.' codeset and
\* '@' modifier (the record's, else the crosswalk modifier of its script), with
\* isRoot and the variants left out: "it-Latn-IT-POSIX" gives "it_IT@latin".
C4_GettextSerializer ==
  /\ (pc = "parsed" /\ lc # NULLChunks /\ gettextID # UNSET) =>
       /\ gettextID = NULL <=> lc.language = NULL
       /\ lc.language # NULL => gettextID = GettextIDOf(lc)
  /\ (pc = "looked" /\ call = "serializers") => gettextID = NULL
  /\ (UnicodeParsed /\ gettextID # UNSET
        /\ id = <<"i", "t", "-", "L", "a", "t", "n", "-", "I", "T", "-", "P", "O", "S", "I", "X">>)
       => gettextID = <<"i", "t", "_", "I", "T", "@", "l", "a", "t", "i", "n">>

C4_Witness ==
  /\ UnicodeParsed
  /\ lc # NULLChunks
  /\ lc.script # NULL /\ lc.territory # NULL /\ Len(lc.variants) > 0
  /\ gettextID = <<"i", "t", "_", "I", "T", "@", "l", "a", "t", "i", "n">>

\* The Unicode ID of a record with a root flag, a language or a script s.
UnicodeIDOf(r, s) ==
  LET first == IF r.isRoot THEN <<"r", "o", "o", "t">>
               ELSE IF s = NULL THEN r.language
               ELSE IF r.language = NULL THEN s
               ELSE r.language \o <<"_">> \o s
      RECURSIVE rest(_)
      rest(i) == IF i > Len(r.variants) THEN <<>>
                 ELSE <<"_">> \o r.variants[i] \o rest(i + 1)
  IN  first
        \o (IF r.territory # NULL THEN <<"_">> \o r.territory ELSE <<>>)
        \o rest(1)

\* C5: with the script being the record's script, else the crosswalk script
\* of its modifier, LocaleChunksToUnicodeLocaleID returns NULL exactly when
\* none of isRoot, language, script is present; otherwise the first segment,
\* the territory and the variants joined by '_', the codeset and a modifier
\* without crosswalk row dropped: "it@latin" gives "it_Latn" and
\* "it_IT.utf8@euro" gives "it_IT".
C5_UnicodeSerializer ==
  /\ (pc = "parsed" /\ lc # NULLChunks /\ unicodeID # UNSET) =>
       LET s == IF lc.script # NULL THEN lc.script
                ELSE GettextModifierToUnicodeScript(lc.modifier)
           none == ~lc.isRoot /\ lc.language = NULL /\ s = NULL
       IN  /\ unicodeID = NULL <=> none
           /\ ~none => unicodeID = UnicodeIDOf(lc, s)
  /\ (pc = "looked" /\ call = "serializers") => unicodeID = NULL
  /\ (GettextParsed /\ unicodeID # UNSET /\ id = <<"i", "t", "@", "l", "a", "t", "i", "n">>)
       => unicodeID = <<"i", "t", "_", "L", "a", "t", "n">>
  /\ (GettextParsed /\ unicodeID # UNSET
        /\ id = <<"i", "t", "_", "I", "T", ".", "u", "t", "f", "8", "@", "e", "u", "r", "o">>)
       => unicodeID = <<"i", "t", "_", "I", "T">>

C5_Witness ==
  /\ GettextParsed
  /\ lc # NULLChunks
  /\ lc.modifier = <<"l", "a", "t", "i", "n">>
  /\ lc.codeset # NULL /\ lc.territory # NULL
  /\ unicodeID = <<"i", "t", "_", "L", "a", "t", "n", "_", "i", "t">>

\* a and b are the same string but for the case of their letters.
SameButCase(a, b) ==
  /\ Len(a) = Len(b)
  /\ \A i \in 1..Len(a) :
       \/ a[i] = b[i]
       \/ \E k \in 1..26 : {a[i], b[i]} = {UpperCase[k], LowerCase[k]}

TableRows == 1..(Len(GettextModifierToUnicodeScriptDictionary) - 1)

\* result is what a first-match lookup of key in column col returns: the cell
\* in column other of the first row matching key, NULL when key is NULL or
\* empty or matches no row.
FirstMatch(key, col, other, result) ==
  LET matches(p) == SameButCase(GettextModifierToUnicodeScriptDictionary[p][col], key)
  IN  IF key = NULL \/ key = <<>> \/ ~(\E p \in TableRows : matches(p))
        THEN result = NULL
        ELSE \E p \in TableRows :
               /\ matches(p)
               /\ \A q \in 1..(p - 1) : ~matches(q)
               /\ result = GettextModifierToUnicodeScriptDictionary[p][other]

\* C6: each crosswalk lookup returns the other cell of the first row, in table
\* order, whose cell equals the key case-insensitively, and NULL for a NULL,
\* empty or unmatched key: "latin" gives "Latn" and back, "georgian" gives
\* "Geok", and "Geok" and "Geor" both give "georgian".
C6_CrosswalkFirstMatch ==
  /\ (pc = "looked" /\ call = "GettextModifierToUnicodeScript") =>
       /\ FirstMatch(id, 1, 2, lookup)
       /\ id = <<"l", "a", "t", "i", "n">> => lookup = <<"L", "a", "t", "n">>
       /\ id = <<"g", "e", "o", "r", "g", "i", "a", "n">> => lookup = <<"G", "e", "o", "k">>
  /\ (pc = "looked" /\ call = "UnicodeScriptToGettextModifier") =>
       /\ FirstMatch(id, 2, 1, lookup)
       /\ id = <<"L", "a", "t", "n">> => lookup = <<"l", "a", "t", "i", "n">>
       /\ id \in {<<"G", "e", "o", "k">>, <<"G", "e", "o", "r">>}
            => lookup = <<"g", "e", "o", "r", "g", "i", "a", "n">>

C6_Witness ==
  /\ pc = "looked"
  /\ call = "GettextModifierToUnicodeScript"
  /\ id = <<"G", "E", "O", "R", "G", "I", "A", "N">>
  /\ lookup = <<"G", "e", "o", "k">>

\* C7: when an allocation made during a parser call fails, the call returns
\* NULL.
C7_AllOrNothing ==
  (pc = "parsed" /\ failed # {}) => lc = NULLChunks

\* The first token of x: its characters before the first '-' or '_'.
FirstToken(x) == ChunkFrom(x, 0, UnicodeSeparators)

\* C8: isRoot never comes with a language or a script; the Unicode parser
\* sets it exactly when the first token is "root" as written, leaving at most
\* a territory and variants beside it ("root-IT" is root with territory "IT",
\* "root-Latn" fails), and every record it returns has one of isRoot,
\* language, script.
C8_RootExclusive ==
  /\ (pc = "parsed" /\ lc # NULLChunks) =>
       (lc.isRoot => lc.language = NULL /\ lc.script = NULL)
  /\ (GettextParsed /\ lc # NULLChunks) => ~lc.isRoot
  /\ (UnicodeParsed /\ lc # NULLChunks) =>
       /\ lc.isRoot <=> FirstToken(id) = <<"r", "o", "o", "t">>
       /\ lc.isRoot => lc.codeset = NULL /\ lc.modifier = NULL
       /\ lc.isRoot \/ lc.language # NULL \/ lc.script # NULL
  /\ (UnicodeParsed /\ id = <<"r", "o", "o", "t", "-", "I", "T">>) =>
       lc = [ZeroedLocaleChunks EXCEPT !.isRoot = TRUE, !.territory = <<"I", "T">>]
  /\ (UnicodeParsed /\ id = <<"r", "o", "o", "t", "-", "L", "a", "t", "n">>) =>
       lc = NULLChunks

C8_Witness ==
  /\ UnicodeParsed
  /\ lc # NULLChunks
  /\ lc.isRoot
  /\ lc.territory # NULL
  /\ Len(lc.variants) > 0

FourAlpha(t) == Len(t) = 4 /\ \A i \in 1..4 : t[i] \in Alpha

DigitLedFour(t) ==
  Len(t) = 4 /\ t[1] \in Digit /\ \A i \in 2..4 : t[i] \in Alpha \cup Digit

\* The offset of the last '-' or '_' of x, 0 when x is a single token.
LastSeparator(x) ==
  LET at == SeparatorsAt(x, UnicodeSeparators)
  IN  IF at = {} THEN 0 ELSE CHOOSE i \in at : \A j \in at : j <= i

LastToken(x) == SubSeq(x, LastSeparator(x) + 1, Len(x))

\* x without its last token and the separator before it.
Front(x) == SubSeq(x, 1, LastSeparator(x) - 1)

\* C9: a 4-character token of a digit and three alphanumerics is accepted as
\* a variant after an accepted language/script/region(/variants) prefix and
\* refused as first token; a 4-letter token is accepted only as the script,
\* first or right after the language, and fails the parse anywhere later.
C9_Positional ==
  (UnicodeParsed /\ id # NULL /\ id # <<>>) =>
    /\ DigitLedFour(FirstToken(id)) => lc = NULLChunks
    /\ (LastSeparator(id) = 0 /\ FourAlpha(id)) =>
         /\ lc # NULLChunks
         /\ lc.isRoot \/ lc.script = id
    /\ LastSeparator(id) > 1 =>
         LET front == UnicodeLocaleIDToLocaleChunks(Front(id), {}).lc
             last == LastToken(id)
         IN  front # NULLChunks =>
               /\ DigitLedFour(last) =>
                    /\ lc # NULLChunks
                    /\ lc.variants = Append(front.variants, last)
               /\ FourAlpha(last) =>
                    /\ lc # NULLChunks <=>
                         (front = [ZeroedLocaleChunks EXCEPT !.language = Front(id)])
                    /\ lc # NULLChunks => lc.script = last /\ lc.variants = <<>>

C9_Witness ==
  /\ UnicodeParsed
  /\ lc # NULLChunks
  /\ lc.script # NULL
  /\ lc.territory # NULL
  /\ lc.variants = << <<"1", "a", "b", "c">> >>

\* C10: each parser returns NULL for NULL, for the empty string, for a string
\* with a character that is neither alphanumeric nor one of its separators,
\* for a string with an empty chunk, and for "foo@bar@baz".
C10_Rejected ==
  LET seps == IF call = "GettextLocaleIDToLocaleChunks"
                THEN GettextSeparators ELSE UnicodeSeparators
  IN  (pc = "parsed"
         /\ \/ id = NULL
            \/ id = <<>>
            \/ HasIllegalCharacter(id, seps)
            \/ HasEmptyChunk(id, seps)
            \/ id = <<"f", "o", "o", "@", "b", "a", "r", "@", "b", "a", "z">>)
        => lc = NULLChunks

C10_Witness ==
  /\ GettextParsed
  /\ id = <<"i", "t", "_", "_", "i", "t">>
  /\ lc = NULLChunks

\* C11: for every string the Gettext parser accepts, the Gettext serializer
\* turns the parsed record back into that very string.
C11_GettextRoundTrip ==
  (GettextParsed /\ lc # NULLChunks /\ gettextID # UNSET) =>
    gettextID # NULL /\ gettextID = id

C11_Witness ==
  /\ GettextParsed
  /\ lc # NULLChunks
  /\ lc.territory # NULL /\ lc.codeset # NULL /\ lc.modifier # NULL
  /\ gettextID = id

\* The offsets at which a token of x ends: before each '-' or '_' and at the
\* end of x.
TokenEnds(x) ==
  {i - 1 : i \in SeparatorsAt(x, UnicodeSeparators)} \cup {Len(x)}

\* The tokens of x up to offset e form an accepted root/language/script
\* prefix followed by one token of length 3: that token stands in region
\* position.
ThreeInRegionPosition(x, e) ==
  LET upTo == SubSeq(x, 1, e)
      front == UnicodeLocaleIDToLocaleChunks(Front(upTo), {}).lc
  IN  /\ LastSeparator(upTo) > 1
      /\ Len(LastToken(upTo)) = 3
      /\ front # NULLChunks
      /\ front.territory = NULL
      /\ front.variants = <<>>

\* C12: a token of length 3 in region position becomes the territory only
\* if its characters 0 and 1 and the character right after it are digits;
\* that character is a separator or the end of the string, so the parse
\* returns NULL: "es-419" is refused and every territory of a returned record
\* has length 2.
C12_RegionOfThree ==
  (UnicodeParsed /\ id # NULL /\ id # <<>>) =>
    /\ (\E e \in TokenEnds(id) : ThreeInRegionPosition(id, e)) => lc = NULLChunks
    /\ id = <<"e", "s", "-", "4", "1", "9">> => lc = NULLChunks
    /\ (lc # NULLChunks /\ lc.territory # NULL) => Len(lc.territory) = 2

C12_Witness ==
  /\ UnicodeParsed
  /\ id = <<"L", "a", "t", "n", "_", "4", "1", "9", "-", "P", "O", "S", "I", "X">>
  /\ ThreeInRegionPosition(id, 8)
  /\ lc = NULLChunks

\* id is the Gettext ID serialized from a record the Unicode parser returned.
FedGettextID ==
  fed.by = "UnicodeLocaleIDToLocaleChunks" /\ fed.out = "gettextID"

\* C13: for every string the Unicode parser accepts and the Gettext
\* serializer turns into a string g, the Gettext parser accepts g and the
\* Gettext serializer turns that record into g again.
C13_GettextOutputReparses ==
  (GettextParsed /\ FedGettextID) =>
    /\ lc # NULLChunks
    /\ gettextID # UNSET => gettextID = id

====
